---- MODULE Spec2Model ----
(***************************************************************************)
(* Model of the phishing scoring engine: PhishDetector.analyze             *)
(* (detector.py) and its helpers (utils.py).                               *)
(*                                                                         *)
(* Text is a sequence of one-character strings, so that the regular        *)
(* expressions, the header parsing, the URL parsing and the suffix tests   *)
(* of the code are computed character by character.                        *)
(***************************************************************************)
EXTENDS Integers, Sequences, FiniteSets

VARIABLES weights, raw_input, hashSeed, result, earlier

vars == <<weights, raw_input, hashSeed, result, earlier>>

----------------------------------------------------------------------------
(* Characters and strings (str methods and regex character classes)       *)

Digits == {"0", "1", "2", "3", "4", "5", "6", "7", "8", "9"}

UpperCase ==
    <<"A", "B", "C", "D", "E", "F", "G", "H", "I", "J", "K", "L", "M",
      "N", "O", "P", "Q", "R", "S", "T", "U", "V", "W", "X", "Y", "Z">>

LowerCase ==
    <<"a", "b", "c", "d", "e", "f", "g", "h", "i", "j", "k", "l", "m",
      "n", "o", "p", "q", "r", "s", "t", "u", "v", "w", "x", "y", "z">>

\* regex \s
IsSpace(c) == c \in {" ", "\n", "\t", "\r"}

\* regex \w
IsWordChar(c) ==
    \/ c \in Digits
    \/ c = "_"
    \/ \E i \in 1..26 : c = UpperCase[i] \/ c = LowerCase[i]

LowerChar(c) ==
    IF \E i \in 1..26 : c = UpperCase[i]
    THEN LowerCase[CHOOSE i \in 1..26 : c = UpperCase[i]]
    ELSE c

\* str.lower()
Lower(s) == [i \in 1..Len(s) |-> LowerChar(s[i])]

\* s[i:] (1-based i)
From(s, i) == SubSeq(s, i, Len(s))

\* s.startswith(p, i-1)
StartsWithAt(s, i, p) ==
    /\ i + Len(p) - 1 <= Len(s)
    /\ \A k \in 1..Len(p) : s[i + k - 1] = p[k]

\* s.startswith(p)
StartsWith(s, p) == StartsWithAt(s, 1, p)

\* s.endswith(p)
EndsWith(s, p) ==
    /\ Len(p) <= Len(s)
    /\ StartsWithAt(s, Len(s) - Len(p) + 1, p)

\* p in s
Contains(s, p) == \E i \in 1..(Len(s) - Len(p) + 1) : StartsWithAt(s, i, p)

\* s.count(c) for a single character c
Count(s, c) == Cardinality({i \in 1..Len(s) : s[i] = c})

\* position of the first c in s, 0 when absent (s.find(c) + 1)
Find(s, c) ==
    IF \E i \in 1..Len(s) : s[i] = c
    THEN CHOOSE i \in 1..Len(s) : s[i] = c /\ \A j \in 1..(i - 1) : s[j] # c
    ELSE 0

\* position of the last c in s, 0 when absent (s.rfind(c) + 1)
RFind(s, c) ==
    IF \E i \in 1..Len(s) : s[i] = c
    THEN CHOOSE i \in 1..Len(s) : s[i] = c /\ \A j \in (i + 1)..Len(s) : s[j] # c
    ELSE 0

\* s.split(c) for a single character c
RECURSIVE Split(_, _)
Split(s, c) ==
    IF Find(s, c) = 0
    THEN <<s>>
    ELSE <<SubSeq(s, 1, Find(s, c) - 1)>> \o Split(From(s, Find(s, c) + 1), c)

\* c.join(parts)
RECURSIVE Join(_, _)
Join(parts, c) ==
    IF Len(parts) = 0 THEN <<>>
    ELSE IF Len(parts) = 1 THEN parts[1]
    ELSE parts[1] \o <<c>> \o Join(Tail(parts), c)

\* s.strip()
RECURSIVE Strip(_)
Strip(s) ==
    IF Len(s) = 0 THEN s
    ELSE IF IsSpace(s[1]) THEN Strip(Tail(s))
    ELSE IF IsSpace(s[Len(s)]) THEN Strip(SubSeq(s, 1, Len(s) - 1))
    ELSE s

----------------------------------------------------------------------------
(* utils.py                                                                *)

SUSPICIOUS_EXT ==
    { <<".", "e", "x", "e">>,
      <<".", "s", "c", "r">>,
      <<".", "b", "a", "t">>,
      <<".", "c", "m", "d">>,
      <<".", "v", "b", "s">>,
      <<".", "j", "s">>,
      <<".", "j", "a", "r">>,
      <<".", "m", "s", "i">>,
      <<".", "p", "s", "1">> }

PHISHING_KEYWORDS ==
    << <<"u", "r", "g", "e", "n", "t">>,
       <<"v", "e", "r", "i", "f", "y">>,
       <<"v", "e", "r", "i", "f", "y", " ", "y", "o", "u", "r", " ", "a", "c", "c", "o", "u", "n", "t">>,
       <<"u", "p", "d", "a", "t", "e", " ", "y", "o", "u", "r", " ", "a", "c", "c", "o", "u", "n", "t">>,
       <<"p", "a", "s", "s", "w", "o", "r", "d">>,
       <<"c", "o", "n", "f", "i", "r", "m">>,
       <<"c", "l", "i", "c", "k", " ", "h", "e", "r", "e">>,
       <<"a", "c", "c", "o", "u", "n", "t", " ", "s", "u", "s", "p", "e", "n", "d", "e", "d">>,
       <<"l", "i", "m", "i", "t", "e", "d", " ", "t", "i", "m", "e">>,
       <<"i", "m", "m", "e", "d", "i", "a", "t", "e", "l", "y">>,
       <<"l", "o", "g", "i", "n", " ", "t", "o">>,
       <<"r", "e", "s", "e", "t", " ", "y", "o", "u", "r", " ", "p", "a", "s", "s", "w", "o", "r", "d">>,
       <<"b", "a", "n", "k">>,
       <<"p", "a", "y", "p", "a", "l">>,
       <<"s", "s", "n">>,
       <<"s", "o", "c", "i", "a", "l", " ", "s", "e", "c", "u", "r", "i", "t", "y">> >>

\* regex class [^\s'"]
IsUrlChar(c) == ~IsSpace(c) /\ c \notin {"'", "\""}

\* length of the longest run of [^\s'"] characters of s from position i
RECURSIVE UrlRunLen(_, _)
UrlRunLen(s, i) ==
    IF i > Len(s) \/ ~IsUrlChar(s[i]) THEN 0 ELSE 1 + UrlRunLen(s, i + 1)

S_http == <<"h", "t", "t", "p">>
S_httpSlashes == <<"h", "t", "t", "p", ":", "/", "/">>
S_httpsSlashes == <<"h", "t", "t", "p", "s", ":", "/", "/">>
S_wwwDot == <<"w", "w", "w", ".">>

\* length of the match of (https?://[^\s'"]+|www\.[^\s'"]+) that starts at
\* position i of text, 0 when there is none
UrlMatchLen(text, i) ==
    LET prefix ==
            IF StartsWithAt(text, i, S_httpsSlashes) /\ UrlRunLen(text, i + 8) > 0
                THEN 8
            ELSE IF StartsWithAt(text, i, S_httpSlashes) /\ UrlRunLen(text, i + 7) > 0
                THEN 7
            ELSE IF StartsWithAt(text, i, S_wwwDot) /\ UrlRunLen(text, i + 4) > 0
                THEN 4
            ELSE 0
    IN  IF prefix = 0 THEN 0 ELSE prefix + UrlRunLen(text, i + prefix)

\* the positions of text at which the pattern matches
UrlCandidates(text) == {i \in 1..Len(text) : UrlMatchLen(text, i) > 0}

\* url_regex.findall scans from left to right and resumes after each match:
\* a match starts at a candidate that no match of an earlier candidate
\* covers (a match runs to the end of its run of [^\s'"] characters, so a
\* covered candidate covers nothing that its cover does not)
UrlStarts(text) ==
    {i \in UrlCandidates(text) :
        \A j \in UrlCandidates(text) : j < i => j + UrlMatchLen(text, j) <= i}

\* the matches that start at the positions of starts, from left to right
RECURSIVE MatchesAt(_, _)
MatchesAt(text, starts) ==
    IF starts = {} THEN <<>>
    ELSE LET i == CHOOSE i \in starts : \A j \in starts : i <= j
         IN  <<SubSeq(text, i, i + UrlMatchLen(text, i) - 1)>>
                 \o MatchesAt(text, starts \ {i})

extract_urls(text) == MatchesAt(text, UrlStarts(text))

\* the argument the code hands to urlparse
WithScheme(url) == IF StartsWith(url, S_http) THEN url ELSE S_httpSlashes \o url

\* urlparse(u).netloc: what follows "//" up to the first of "/", "?", "#"
Netloc(u) ==
    LET start == IF StartsWith(u, S_httpsSlashes) THEN 9
                 ELSE IF StartsWith(u, S_httpSlashes) THEN 8
                 ELSE Len(u) + 1
        rest  == From(u, start)
        stops == {i \in 1..Len(rest) : rest[i] \in {"/", "?", "#"}}
        stop  == IF stops = {} THEN Len(rest) + 1
                 ELSE CHOOSE i \in stops : \A j \in stops : i <= j
    IN  SubSeq(rest, 1, stop - 1)

\* urlparse raises ValueError("Invalid IPv6 URL") on an unbalanced bracket
UrlParseRaises(u) == ("[" \in {Netloc(u)[i] : i \in 1..Len(Netloc(u))})
                         # ("]" \in {Netloc(u)[i] : i \in 1..Len(Netloc(u))})

\* urlparse(u).hostname or '' : the netloc without userinfo and port,
\* lower-cased (hosts in brackets are not among the inputs)
Hostname(u) ==
    LET hostinfo == From(Netloc(u), RFind(Netloc(u), "@") + 1)
        colon    == Find(hostinfo, ":")
        host     == IF colon = 0 THEN hostinfo ELSE SubSeq(hostinfo, 1, colon - 1)
    IN  Lower(host)

IsDigits(s) == Len(s) \in 1..3 /\ \A i \in 1..Len(s) : s[i] \in Digits

\* the whole of s matches (?:[0-9]{1,3}\.){3}[0-9]{1,3}
IsDottedQuad(s) ==
    /\ Len(Split(s, ".")) = 4
    /\ \A k \in 1..4 : IsDigits(Split(s, ".")[k])

\* IP_REGEX.search(host): some substring is a dotted quad between two \b
IpRegexSearch(host) ==
    \E i \in 1..Len(host) : \E j \in i..Len(host) :
        /\ i = 1 \/ ~IsWordChar(host[i - 1])
        /\ j = Len(host) \/ ~IsWordChar(host[j + 1])
        /\ host[i] \in Digits /\ host[j] \in Digits
        /\ IsDottedQuad(SubSeq(host, i, j))

is_ip_url(url) ==
    IF UrlParseRaises(WithScheme(url)) THEN FALSE
    ELSE IpRegexSearch(Hostname(WithScheme(url)))

\* the public suffixes known to tldextract that the modelled hosts use
PublicSuffixes ==
    { <<"c", "o", "m">>, <<"o", "r", "g">>, <<"n", "e", "t">>, <<"c", "o">>,
      <<"u", "k">>, <<"c", "o", ".", "u", "k">> }

\* tldextract.extract(host).registered_domain: the label in front of the
\* longest public suffix plus that suffix; '' for an IP address and for a
\* host without a known suffix or without a label in front of it
RegisteredDomain(host) ==
    LET labels == Split(host, ".")
        n      == Len(labels)
        cuts   == {k \in 1..n : Join(SubSeq(labels, k, n), ".") \in PublicSuffixes}
        cut    == CHOOSE k \in cuts : \A m \in cuts : k <= m
    IN  IF IsDottedQuad(host) \/ cuts = {} \/ 1 \in cuts THEN <<>>
        ELSE Join(SubSeq(labels, cut - 1, n), ".")

domain_from_url(url) ==
    IF UrlParseRaises(WithScheme(url)) THEN <<>>
    ELSE IF RegisteredDomain(Hostname(WithScheme(url))) # <<>>
        THEN Lower(RegisteredDomain(Hostname(WithScheme(url))))
    ELSE Lower(Hostname(WithScheme(url)))

----------------------------------------------------------------------------
(* email.message_from_string(raw, policy=default), as utils.py uses it:    *)
(* the header block is the leading lines of the form "Name: value"; it     *)
(* ends at the first blank line or at the first line that is no header.    *)
(* Folded and encoded headers and multipart bodies are not among the       *)
(* inputs, so a header value is the text after the colon, stripped, and    *)
(* the message is its own single part.                                     *)

\* "from"
S_from ==
    <<"f", "r", "o", "m">>

\* "reply-to"
S_reply_to ==
    <<"r", "e", "p", "l", "y", "-", "t", "o">>

\* "content-disposition"
S_content_disposition ==
    <<"c", "o", "n", "t", "e", "n", "t", "-", "d", "i", "s", "p", "o", "s", "i", "t", "i", "o", "n">>

\* "attachment"
S_attachment ==
    <<"a", "t", "t", "a", "c", "h", "m", "e", "n", "t">>

\* "filename"
S_filename ==
    <<"f", "i", "l", "e", "n", "a", "m", "e">>

Lines(raw) == Split(raw, "\n")

IsHeaderLine(line) ==
    /\ Find(line, ":") > 1
    /\ \A i \in 1..(Find(line, ":") - 1) : ~IsSpace(line[i])

\* number of leading header lines
RECURSIVE HeaderCount(_)
HeaderCount(lines) ==
    IF Len(lines) = 0 \/ ~IsHeaderLine(lines[1]) THEN 0
    ELSE 1 + HeaderCount(Tail(lines))

HeaderLines(raw) == SubSeq(Lines(raw), 1, HeaderCount(Lines(raw)))

HeaderName(line) == Lower(SubSeq(line, 1, Find(line, ":") - 1))

HeaderValue(line) == Strip(From(line, Find(line, ":") + 1))

\* msg[name] or '' : the value of the first header called name, in any case
GetHeader(raw, name) ==
    LET hs   == HeaderLines(raw)
        hits == {i \in 1..Len(hs) : HeaderName(hs[i]) = name}
    IN  IF hits = {} THEN <<>>
        ELSE HeaderValue(hs[CHOOSE i \in hits : \A j \in hits : i <= j])

\* the payload: what follows the header block and its blank separator line
MessageBody(raw) ==
    LET ls   == Lines(raw)
        n    == HeaderCount(ls)
        skip == IF n < Len(ls) /\ ls[n + 1] = <<>> THEN n + 1 ELSE n
    IN  Join(SubSeq(ls, skip + 1, Len(ls)), "\n")

extract_sender_from_headers(raw_email) ==
    [from_hdr |-> GetHeader(raw_email, S_from),
     reply_to |-> GetHeader(raw_email, S_reply_to)]

\* part.get_content_disposition(): the first ;-separated item, lower-cased
ContentDisposition(raw) ==
    Lower(Strip(Split(GetHeader(raw, S_content_disposition), ";")[1]))

\* part.get_filename('') or '' : the value of the filename parameter
GetFilename(raw) ==
    LET params == Split(GetHeader(raw, S_content_disposition), ";")
        hits   == {i \in 2..Len(params) :
                      /\ Find(params[i], "=") > 0
                      /\ Lower(Strip(SubSeq(params[i], 1, Find(params[i], "=") - 1)))
                             = S_filename}
        p      == params[CHOOSE i \in hits : \A j \in hits : i <= j]
    IN  IF hits = {} THEN <<>> ELSE Strip(From(p, Find(p, "=") + 1))

\* the filename once for every dangerous extension it ends with
find_attachments(raw_email) ==
    IF ContentDisposition(raw_email) # S_attachment THEN <<>>
    ELSE [i \in 1..Cardinality({ext \in SUSPICIOUS_EXT :
                                   EndsWith(Lower(GetFilename(raw_email)), ext)})
             |-> GetFilename(raw_email)]

----------------------------------------------------------------------------
(* detector.py                                                             *)

\* self.weights, as PhishDetector.__init__ sets it
DefaultWeights ==
    [suspicious_url |-> 30, ip_url |-> 20, http_not_https |-> 10,
     multiple_links |-> 8, urgent_language |-> 15,
     suspicious_attachment |-> 25, sender_mismatch |-> 25, bad_tld |-> 12]

RuleNames == DOMAIN DefaultWeights

\* sum(self.weights.values())
RECURSIVE SumOver(_, _)
SumOver(w, names) ==
    IF names = {} THEN 0
    ELSE LET n == CHOOSE n \in names : TRUE
         IN  w[n] + SumOver(w, names \ {n})

\* the largest weight in place of the sum: max(self.weights.values())
MaxPossible_max(w) == CHOOSE m \in {w[n] : n \in DOMAIN w} : \A n \in DOMAIN w : w[n] <= m

MaxPossible(w) == SumOver(w, DOMAIN w)

\* "URLs with suspicious patterns: "
Expl_suspicious_url ==
    <<"U", "R", "L", "s", " ", "w", "i", "t", "h", " ", "s", "u", "s", "p", "i", "c", "i", "o",
      "u", "s", " ", "p", "a", "t", "t", "e", "r", "n", "s", ":", " ">>

\* "URLs using raw IP addresses: "
Expl_ip_url ==
    <<"U", "R", "L", "s", " ", "u", "s", "i", "n", "g", " ", "r", "a", "w", " ", "I", "P", " ",
      "a", "d", "d", "r", "e", "s", "s", "e", "s", ":", " ">>

\* "Non-HTTPS links found: "
Expl_http_not_https ==
    <<"N", "o", "n", "-", "H", "T", "T", "P", "S", " ", "l", "i", "n", "k", "s", " ", "f", "o",
      "u", "n", "d", ":", " ">>

\* "Email contains "
Expl_multiple_links_1 ==
    <<"E", "m", "a", "i", "l", " ", "c", "o", "n", "t", "a", "i", "n", "s", " ">>

\* " links"
Expl_multiple_links_2 ==
    <<" ", "l", "i", "n", "k", "s">>

\* "Phishing keywords found: "
Expl_urgent_language ==
    <<"P", "h", "i", "s", "h", "i", "n", "g", " ", "k", "e", "y", "w", "o", "r", "d", "s", " ",
      "f", "o", "u", "n", "d", ":", " ">>

\* "Suspicious attachments: "
Expl_suspicious_attachment ==
    <<"S", "u", "s", "p", "i", "c", "i", "o", "u", "s", " ", "a", "t", "t", "a", "c", "h", "m",
      "e", "n", "t", "s", ":", " ">>

\* "Sender domain '"
Expl_sender_mismatch_1 ==
    <<"S", "e", "n", "d", "e", "r", " ", "d", "o", "m", "a", "i", "n", " ", "'">>

\* "' doesn't match link domains "
Expl_sender_mismatch_2 ==
    <<"'", " ", "d", "o", "e", "s", "n", "'", "t", " ", "m", "a", "t", "c", "h", " ", "l", "i",
      "n", "k", " ", "d", "o", "m", "a", "i", "n", "s", " ">>

\* "Unusual domain parts count: "
Expl_bad_tld ==
    <<"U", "n", "u", "s", "u", "a", "l", " ", "d", "o", "m", "a", "i", "n", " ", "p", "a", "r",
      "t", "s", " ", "c", "o", "u", "n", "t", ":", " ">>

\* str(n) for n >= 0
RECURSIVE IntToStr(_)
IntToStr(n) ==
    LET d == <<"0", "1", "2", "3", "4", "5", "6", "7", "8", "9">>[(n % 10) + 1]
    IN  IF n < 10 THEN <<d>> ELSE IntToStr(n \div 10) \o <<d>>

\* the f-string rendering of a list of strings: ['a', 'b']
RECURSIVE ReprItems(_)
ReprItems(items) ==
    IF Len(items) = 0 THEN <<>>
    ELSE <<"'">> \o items[1] \o <<"'">>
             \o (IF Len(items) = 1 THEN <<>> ELSE <<",", " ">>)
             \o ReprItems(Tail(items))

ListRepr(items) == <<"[">> \o ReprItems(items) \o <<"]">>

\* dom and (dom.count('-') >= 2 or len(dom.split('.')) > 3)
IsSuspiciousDomain(dom) ==
    dom # <<>> /\ (Count(dom, "-") >= 2 \/ Len(Split(dom, ".")) > 3)

\* the length test on the last label only: len(dom.split('.')[-1]) > 10
HasLongLabel_lastOnly(dom) ==
    dom # <<>> /\ Len(Split(dom, ".")[Len(Split(dom, "."))]) > 10

\* dom and any(len(p) > 10 for p in dom.split('.'))
HasLongLabel(dom) ==
    dom # <<>> /\ \E k \in 1..Len(Split(dom, ".")) : Len(Split(dom, ".")[k]) > 10

\* kw in body_lower, for every kw of a list of keywords
RECURSIVE HitsIn(_, _)
HitsIn(body_lower, keywords) ==
    IF Len(keywords) = 0 THEN <<>>
    ELSE (IF Contains(body_lower, keywords[1]) THEN <<keywords[1]>> ELSE <<>>)
             \o HitsIn(body_lower, Tail(keywords))

\* [kw for kw in PHISHING_KEYWORDS if kw in body_lower]
KeywordHits(body) == HitsIn(Lower(body), PHISHING_KEYWORDS)

\* bad_tld_count: the URLs whose domain has a long label
BadTldCount(urls) ==
    Cardinality({i \in 1..Len(urls) : HasLongLabel(domain_from_url(urls[i]))})

\* regex class [\w\.-]
IsAddrChar(c) == IsWordChar(c) \/ c \in {".", "-"}

RECURSIVE AddrRunLen(_, _)
AddrRunLen(s, i) ==
    IF i > Len(s) \/ ~IsAddrChar(s[i]) THEN 0 ELSE 1 + AddrRunLen(s, i + 1)

\* re.search(r"[\w\.-]+@[\w\.-]+", from_hdr), then split('@')[-1].lower():
\* the leftmost match ends with the run of [\w.-] after the first "@" that
\* has such a character on both sides; '' when there is no match
SenderDomain(from_hdr) ==
    LET ats == {i \in 2..(Len(from_hdr) - 1) :
                   /\ from_hdr[i] = "@"
                   /\ IsAddrChar(from_hdr[i - 1])
                   /\ IsAddrChar(from_hdr[i + 1])}
        at  == CHOOSE i \in ats : \A j \in ats : i <= j
    IN  IF ats = {} THEN <<>>
        ELSE Lower(SubSeq(from_hdr, at + 1, at + AddrRunLen(from_hdr, at + 1)))

\* {d for d in (domain_from_url(u) for u in urls) if d}
LinkDomains(urls) ==
    {domain_from_url(urls[i]) : i \in 1..Len(urls)} \ {<<>>}

\* the test without its third alternative, the sender's last label
DomainsRelated_twoWay(sender_domain, ld) ==
    \/ EndsWith(sender_domain, ld)
    \/ EndsWith(ld, sender_domain)

\* the three-way test of line 106 for one link domain
DomainsRelated(sender_domain, ld) ==
    \/ EndsWith(sender_domain, ld)
    \/ EndsWith(ld, sender_domain)
    \/ EndsWith(ld, Split(sender_domain, ".")[Len(Split(sender_domain, "."))])

Mismatch(sender_domain, link_domains) ==
    /\ sender_domain # <<>>
    /\ link_domains # {}
    /\ ~\E ld \in link_domains : DomainsRelated(sender_domain, ld)

\* the listed items without repetitions, in order of first appearance
RECURSIVE Dedup(_)
Dedup(items) ==
    IF Len(items) = 0 THEN <<>>
    ELSE LET front == Dedup(SubSeq(items, 1, Len(items) - 1))
             last  == items[Len(items)]
         IN  IF \E i \in 1..Len(front) : front[i] = last THEN front
             ELSE Append(front, last)

\* the seed-th arrangement of items
RECURSIVE Permute(_, _)
Permute(items, seed) ==
    IF Len(items) <= 1 THEN items
    ELSE LET k == (seed % Len(items)) + 1
         IN  <<items[k]>>
                 \o Permute(SubSeq(items, 1, k - 1) \o From(items, k + 1),
                            seed \div Len(items))

\* list(link_domains): the iteration order of a set of str follows the
\* string hashes, which the interpreter salts with a seed drawn when the
\* process starts; it is fixed within a process and free across processes
SetToList(urls, seed) ==
    Permute(Dedup(SelectSeq([i \in 1..Len(urls) |-> domain_from_url(urls[i])],
                            LAMBDA d : d # <<>>)),
            seed)

\* the scaled value without the cap: int(len(hits) * 3)
UrgentVal_uncapped(w, hits) == Len(hits) * 3

\* min(self.weights['urgent_language'], int(len(hits) * 3))
UrgentVal(w, hits) ==
    IF w.urgent_language <= Len(hits) * 3 THEN w.urgent_language ELSE Len(hits) * 3

\* min(self.weights['bad_tld'], bad_tld_count * 4)
BadTldVal(w, bad_tld_count) ==
    IF w.bad_tld <= bad_tld_count * 4 THEN w.bad_tld ELSE bad_tld_count * 4

Entry(name, val, explanation) ==
    [name |-> name, val |-> val, explanation |-> explanation]

\* the entries of the triggered rules, in the order in which the code
\* appends them, from the values analyze has extracted
Entries(w, urls, hits, atts, sender_domain, seed) ==
    (IF \E i \in 1..Len(urls) : IsSuspiciousDomain(domain_from_url(urls[i]))
       THEN <<Entry("suspicious_url", w.suspicious_url,
                    Expl_suspicious_url
                        \o ListRepr(SelectSeq(urls,
                               LAMBDA u : IsSuspiciousDomain(domain_from_url(u)))))>>
       ELSE <<>>)
    \o (IF \E i \in 1..Len(urls) : is_ip_url(urls[i])
       THEN <<Entry("ip_url", w.ip_url,
                    Expl_ip_url \o ListRepr(SelectSeq(urls, is_ip_url)))>>
       ELSE <<>>)
    \o (IF \E i \in 1..Len(urls) : StartsWith(urls[i], S_httpSlashes)
       THEN <<Entry("http_not_https", w.http_not_https,
                    Expl_http_not_https
                        \o ListRepr(SelectSeq(urls,
                               LAMBDA u : StartsWith(u, S_httpSlashes))))>>
       ELSE <<>>)
    \o (IF Len(urls) >= 3
       THEN <<Entry("multiple_links", w.multiple_links,
                    Expl_multiple_links_1 \o IntToStr(Len(urls))
                        \o Expl_multiple_links_2)>>
       ELSE <<>>)
    \o (IF Len(hits) > 0
       THEN <<Entry("urgent_language", UrgentVal(w, hits),
                    Expl_urgent_language \o ListRepr(hits))>>
       ELSE <<>>)
    \o (IF Len(atts) > 0
       THEN <<Entry("suspicious_attachment", w.suspicious_attachment,
                    Expl_suspicious_attachment \o ListRepr(atts))>>
       ELSE <<>>)
    \o (IF Mismatch(sender_domain, LinkDomains(urls))
       THEN <<Entry("sender_mismatch", w.sender_mismatch,
                    Expl_sender_mismatch_1 \o sender_domain
                        \o Expl_sender_mismatch_2
                        \o ListRepr(SetToList(urls, seed)))>>
       ELSE <<>>)
    \o (IF BadTldCount(urls) > 0
       THEN <<Entry("bad_tld", BadTldVal(w, BadTldCount(urls)),
                    Expl_bad_tld \o IntToStr(BadTldCount(urls)))>>
       ELSE <<>>)

\* the breakdown list of analyze: body is the entire text
Breakdown(w, raw_email_text, seed) ==
    Entries(w,
            extract_urls(raw_email_text),
            KeywordHits(raw_email_text),
            find_attachments(raw_email_text),
            SenderDomain(extract_sender_from_headers(raw_email_text).from_hdr),
            seed)

\* total = val in place of total += val: the last triggered rule's value
Total_assign(breakdown) ==
    IF Len(breakdown) = 0 THEN 0 ELSE breakdown[Len(breakdown)].val

\* total: every triggered rule does total += val
RECURSIVE Total(_)
Total(breakdown) ==
    IF Len(breakdown) = 0 THEN 0
    ELSE Total(SubSeq(breakdown, 1, Len(breakdown) - 1))
             + breakdown[Len(breakdown)].val

\* int((total / max_possible) * 100) if max_possible else 0, then
\* max(0, min(100, score)); int() drops the fraction
Normalize(total, max_possible) ==
    LET score == IF max_possible # 0 THEN (total * 100) \div max_possible ELSE 0
    IN  IF score < 0 THEN 0 ELSE IF score > 100 THEN 100 ELSE score

\* the dictionary analyze returns
ResultOf(w, text, entries) ==
    [score            |-> Normalize(Total(entries), MaxPossible(w)),
     max_score        |-> 100,
     raw_total        |-> Total(entries),
     max_possible_raw |-> MaxPossible(w),
     breakdown        |-> entries,
     sender           |-> extract_sender_from_headers(text).from_hdr,
     reply_to         |-> extract_sender_from_headers(text).reply_to,
     urls             |-> extract_urls(text)]

\* PhishDetector.analyze
analyze(w, text, seed) == ResultOf(w, text, Breakdown(w, text, seed))

----------------------------------------------------------------------------
(* The emails that are analysed: a header block, a blank line and a body   *)
(* made of consecutive text blocks of the list below, one per line.        *)

\* "From: billing@paypal.com"
HdrFromPaypal ==
    <<"F", "r", "o", "m", ":", " ", "b", "i", "l", "l", "i", "n", "g", "@", "p", "a", "y", "p",
      "a", "l", ".", "c", "o", "m">>

\* "From: IT <it@Mail.X.co>"
HdrFromDisplay ==
    <<"F", "r", "o", "m", ":", " ", "I", "T", " ", "<", "i", "t", "@", "M", "a", "i", "l", ".",
      "X", ".", "c", "o", ">">>

\* "From: helpdesk"
HdrFromNoAddr ==
    <<"F", "r", "o", "m", ":", " ", "h", "e", "l", "p", "d", "e", "s", "k">>

\* "X-Link: http://1.2.3.4/a"
HdrLink ==
    <<"X", "-", "L", "i", "n", "k", ":", " ", "h", "t", "t", "p", ":", "/", "/", "1", ".", "2",
      ".", "3", ".", "4", "/", "a">>

\* "Content-Disposition: attachment; filename=inv.EXE"
HdrAttExe ==
    <<"C", "o", "n", "t", "e", "n", "t", "-", "D", "i", "s", "p", "o", "s", "i", "t", "i", "o",
      "n", ":", " ", "a", "t", "t", "a", "c", "h", "m", "e", "n", "t", ";", " ", "f", "i", "l",
      "e", "n", "a", "m", "e", "=", "i", "n", "v", ".", "E", "X", "E">>

\* "Content-Disposition: attachment; filename=inv.pdf"
HdrAttPdf ==
    <<"C", "o", "n", "t", "e", "n", "t", "-", "D", "i", "s", "p", "o", "s", "i", "t", "i", "o",
      "n", ":", " ", "a", "t", "t", "a", "c", "h", "m", "e", "n", "t", ";", " ", "f", "i", "l",
      "e", "n", "a", "m", "e", "=", "i", "n", "v", ".", "p", "d", "f">>

\* "Your account has been suspended, verify immediately."
TxtSuspended ==
    <<"Y", "o", "u", "r", " ", "a", "c", "c", "o", "u", "n", "t", " ", "h", "a", "s", " ", "b",
      "e", "e", "n", " ", "s", "u", "s", "p", "e", "n", "d", "e", "d", ",", " ", "v", "e", "r",
      "i", "f", "y", " ", "i", "m", "m", "e", "d", "i", "a", "t", "e", "l", "y", ".">>

\* "http://192.168.1.5/login http://paypal-secure-verify.com/reset https://paypal.com/account"
TxtThreeLinks ==
    <<"h", "t", "t", "p", ":", "/", "/", "1", "9", "2", ".", "1", "6", "8", ".", "1", ".", "5",
      "/", "l", "o", "g", "i", "n", " ", "h", "t", "t", "p", ":", "/", "/", "p", "a", "y", "p",
      "a", "l", "-", "s", "e", "c", "u", "r", "e", "-", "v", "e", "r", "i", "f", "y", ".", "c",
      "o", "m", "/", "r", "e", "s", "e", "t", " ", "h", "t", "t", "p", "s", ":", "/", "/", "p",
      "a", "y", "p", "a", "l", ".", "c", "o", "m", "/", "a", "c", "c", "o", "u", "n", "t">>

\* "www.x.co"
TxtWww ==
    <<"w", "w", "w", ".", "x", ".", "c", "o">>

\* "http://1.2.3.4.b.org/"
TxtIpPrefix ==
    <<"h", "t", "t", "p", ":", "/", "/", "1", ".", "2", ".", "3", ".", "4", ".", "b", ".", "o",
      "r", "g", "/">>

\* "https://a-b-c.net"
TxtDashes ==
    <<"h", "t", "t", "p", "s", ":", "/", "/", "a", "-", "b", "-", "c", ".", "n", "e", "t">>

\* "URGENT: confirm your bank password immediately, click here"
TxtUrgent ==
    <<"U", "R", "G", "E", "N", "T", ":", " ", "c", "o", "n", "f", "i", "r", "m", " ", "y", "o",
      "u", "r", " ", "b", "a", "n", "k", " ", "p", "a", "s", "s", "w", "o", "r", "d", " ", "i",
      "m", "m", "e", "d", "i", "a", "t", "e", "l", "y", ",", " ", "c", "l", "i", "c", "k", " ",
      "h", "e", "r", "e">>

\* "www.abcdefghijk.co www.abcdefghijk.co www.abcdefghijk.co www.abcdefghijk.co"
TxtLongLabels ==
    <<"w", "w", "w", ".", "a", "b", "c", "d", "e", "f", "g", "h", "i", "j", "k", ".", "c", "o",
      " ", "w", "w", "w", ".", "a", "b", "c", "d", "e", "f", "g", "h", "i", "j", "k", ".", "c",
      "o", " ", "w", "w", "w", ".", "a", "b", "c", "d", "e", "f", "g", "h", "i", "j", "k", ".",
      "c", "o", " ", "w", "w", "w", ".", "a", "b", "c", "d", "e", "f", "g", "h", "i", "j", "k",
      ".", "c", "o">>

\* "http://[bad/x"
TxtBadBracket ==
    <<"h", "t", "t", "p", ":", "/", "/", "[", "b", "a", "d", "/", "x">>

\* the most text blocks in one body
MaxBlocks == 2

\* the number of hash seeds a process can start with
NumSeeds == 2

HeaderBlocks ==
    { <<>>,
      <<HdrFromPaypal>>,
      <<HdrAttExe>>,
      <<HdrFromDisplay, HdrAttExe>>,
      <<HdrFromNoAddr, HdrAttPdf>>,
      <<HdrFromPaypal, HdrLink>> }

TextBlocks ==
    <<TxtSuspended, TxtThreeLinks, TxtWww, TxtIpPrefix, TxtDashes, TxtUrgent,
      TxtLongLabels, TxtBadBracket>>

\* the body that starts with block number first and has count blocks, one
\* per line, going round the list of text blocks
BodyOf(first, count) ==
    [k \in 1..count |-> TextBlocks[((first + k - 2) % Len(TextBlocks)) + 1]]

Compose(headers, first, count) ==
    Join(headers \o <<<<>>>> \o BodyOf(first, count), "\n")

Inputs ==
    {Compose(h, first, count) :
        h \in HeaderBlocks, first \in 1..Len(TextBlocks), count \in 0..MaxBlocks}

Seeds == 0..(NumSeeds - 1)

----------------------------------------------------------------------------
(* The program: a process starts with a hash seed; every analysis builds   *)
(* a PhishDetector and calls analyze on the text (app.py, lines 130-131).  *)
(* result is empty before the first analysis of a process; earlier holds   *)
(* what the analysis before the last one returned, in this process or in   *)
(* the one before it, and is empty when there was none.                    *)

Init ==
    /\ weights = DefaultWeights
    /\ raw_input \in Inputs
    /\ hashSeed \in Seeds
    /\ result = <<>>
    /\ earlier = <<>>

\* detector = PhishDetector(); result = detector.analyze(raw_input)
Analyze ==
    /\ weights' = DefaultWeights
    /\ result' = <<analyze(weights', raw_input, hashSeed)>>
    /\ earlier' = IF result = <<>> THEN earlier ELSE result
    /\ UNCHANGED <<raw_input, hashSeed>>

\* the program is started again on the same text: a new process, a new seed
Restart ==
    /\ result # <<>>
    /\ hashSeed' \in Seeds
    /\ earlier' = result
    /\ result' = <<>>
    /\ UNCHANGED <<weights, raw_input>>

Next == Analyze \/ Restart

Spec == Init /\ [][Next]_vars

----------------------------------------------------------------------------
(* Properties                                                              *)

Done == result # <<>>

R == result[1]

Names(r) == {r.breakdown[i].name : i \in 1..Len(r.breakdown)}

Signals(r) == {<<r.breakdown[i].name, r.breakdown[i].val>> : i \in 1..Len(r.breakdown)}

Min(a, b) == IF a <= b THEN a ELSE b

\* C1: every result has 0 <= score <= 100 and raw_total <= max_possible_raw,
\* and max_possible_raw is 145, the sum of the eight weights, in every
\* analysis.
C1_ScoreAndTotalBounded ==
    /\ Done =>
        /\ 0 <= R.score /\ R.score <= 100
        /\ R.raw_total <= R.max_possible_raw
        /\ R.max_possible_raw = 30 + 20 + 10 + 8 + 15 + 25 + 25 + 12
    /\ (Done /\ earlier # <<>>) => R.max_possible_raw = earlier[1].max_possible_raw

\* an analysis in which most of the rules triggered
C1_Witness == Done /\ R.raw_total >= 100 /\ R.raw_total <= 145

\* round(a / b) for a >= 0, b > 0 (no reachable total is a tie)
RoundDiv(a, b) == (2 * a + b) \div (2 * b)

\* C2: the score is the percentage raw_total / max_possible_raw rounded to
\* the nearest integer and clamped to 0..100.
C2_ScoreIsRounded ==
    Done => R.score = (IF R.max_possible_raw = 0 THEN 0
                       ELSE Min(100, RoundDiv(R.raw_total * 100, R.max_possible_raw)))

LastLabel(dom) == Split(dom, ".")[Len(Split(dom, "."))]

UrlSignals ==
    {"suspicious_url", "ip_url", "http_not_https", "multiple_links", "bad_tld",
     "sender_mismatch"}

\* C4: when the body of the message contains no URL, none of the six
\* URL-dependent signals is emitted, whatever the headers contain.
C4_NoBodyUrlNoUrlSignal ==
    (Done /\ extract_urls(MessageBody(raw_input)) = <<>>)
        => Names(R) \cap UrlSignals = {}

FlatRules ==
    {"suspicious_url", "ip_url", "http_not_https", "multiple_links",
     "suspicious_attachment", "sender_mismatch"}

\* the trigger condition of a rule, on the analysed text and the result
Triggered(name) ==
    CASE name = "suspicious_url" ->
            \E i \in 1..Len(R.urls) :
                LET dom == domain_from_url(R.urls[i])
                IN  dom # <<>> /\ (Count(dom, "-") >= 2 \/ Count(dom, ".") >= 3)
      [] name = "ip_url" -> \E i \in 1..Len(R.urls) : is_ip_url(R.urls[i])
      [] name = "http_not_https" ->
            \E i \in 1..Len(R.urls) : StartsWith(R.urls[i], S_httpSlashes)
      [] name = "multiple_links" -> Len(R.urls) >= 3
      [] name = "urgent_language" ->
            \E k \in 1..Len(PHISHING_KEYWORDS) :
                Contains(Lower(raw_input), PHISHING_KEYWORDS[k])
      [] name = "suspicious_attachment" -> find_attachments(raw_input) # <<>>
      [] name = "sender_mismatch" ->
            SenderDomain(R.sender) # <<>> /\ LinkDomains(R.urls) # {}
      [] name = "bad_tld" ->
            \E i \in 1..Len(R.urls) :
                \E k \in 1..Len(Split(domain_from_url(R.urls[i]), ".")) :
                    Len(Split(domain_from_url(R.urls[i]), ".")[k]) > 10
      [] OTHER -> FALSE

MatchedKeywords ==
    Cardinality({k \in 1..Len(PHISHING_KEYWORDS) :
                    Contains(Lower(raw_input), PHISHING_KEYWORDS[k])})

LongLabelUrls ==
    Cardinality({i \in 1..Len(R.urls) :
                    \E k \in 1..Len(Split(domain_from_url(R.urls[i]), ".")) :
                        Len(Split(domain_from_url(R.urls[i]), ".")[k]) > 10})

RECURSIVE SumOfVals(_)
SumOfVals(sigs) ==
    IF sigs = {} THEN 0
    ELSE LET sig == CHOOSE sig \in sigs : TRUE
         IN  sig[2] + SumOfVals(sigs \ {sig})

ExampleInput == Compose(<<HdrFromPaypal>>, 1, 2)

C7_SameTextSameResult ==
    /\ weights = DefaultWeights
    /\ (Done /\ earlier # <<>>) => result = earlier

\* the host of the URL is a dotted quad and nothing else
HostIsIpLiteral(url) ==
    /\ ~UrlParseRaises(WithScheme(url))
    /\ IsDottedQuad(Hostname(WithScheme(url)))

\* C8: is_ip_url holds of a URL exactly when its whole host is a dotted
\* quad, it is false of a URL that cannot be parsed, and ip_url is emitted
\* only when some extracted URL has such a host.
C8_IpUrlIffHostIsQuad ==
    Done =>
        /\ \A i \in 1..Len(R.urls) : is_ip_url(R.urls[i]) <=> HostIsIpLiteral(R.urls[i])
        /\ "ip_url" \in Names(R) => \E i \in 1..Len(R.urls) : HostIsIpLiteral(R.urls[i])

\* C9: the result has a field keyword_hits that lists the keywords occurring
\* in the lower-cased text.
C9_KeywordHitsReturned ==
    Done =>
        /\ "keyword_hits" \in DOMAIN R
        /\ R.keyword_hits = SelectSeq(PHISHING_KEYWORDS,
                                LAMBDA kw : Contains(Lower(raw_input), kw))

\* what C10 compares: the signals, the total and the score of a result
Outcome(r) == [signals |-> Signals(r), raw_total |-> r.raw_total, score |-> r.score]

\* the outcomes of the analyses of all the texts
Outcomes == {Outcome(analyze(DefaultWeights, text, 0)) : text \in Inputs}

\* b has the signals of a and one more triggered rule
OneMoreRule(a, b) ==
    /\ a.signals \subseteq b.signals
    /\ Cardinality(b.signals \ a.signals) = 1

\* b has the signals of a, but for a larger weight on one graded rule
LargerGraded(a, b) ==
    \E g \in {"urgent_language", "bad_tld"} :
        \E sa \in a.signals : \E sb \in b.signals :
            /\ sa[1] = g /\ sb[1] = g /\ sb[2] > sa[2]
            /\ a.signals \ {sa} = b.signals \ {sb}

\* C10: against any analysis with the same signals and one more triggered
\* rule, or a larger weight on a graded rule, the raw_total is strictly
\* smaller and the score is not greater.
C10_ScoreMonotonic ==
    Done =>
        \A o \in Outcomes :
            (OneMoreRule(Outcome(R), o) \/ LargerGraded(Outcome(R), o))
                => (o.raw_total > R.raw_total /\ o.score >= R.score)

\* some analysis has the signals of this one and one more rule, and some
\* other has a larger graded weight
C10_Witness ==
    /\ Done
    /\ \E o \in Outcomes : OneMoreRule(Outcome(R), o)
    /\ \E o \in Outcomes : LargerGraded(Outcome(R), o)

====
